---- MODULE Spec2Model ----
(***************************************************************************)
(* Timelock encryption (tlock): a model of the encrypt / decrypt paths of  *)
(* foundation/drnd, of the drand HTTP network adapters, of the tlock       *)
(* package API and of the tle command.                                     *)
(*                                                                         *)
(* Bytes are abstracted: a payload is a (length, content tag) pair, a hash *)
(* or a signature is a tagged tuple (an injective stand-in for SHA-256 and *)
(* for BLS), an IBE ciphertext records the master key and the identity it  *)
(* was made under.  Lengths, buffer sizes and round numbers are integers.  *)
(***************************************************************************)
EXTENDS Integers, Sequences, FiniteSets, TLC

VARIABLES clock,    \* wall-clock time, in ticks
          latest,   \* highest round the beacon network has published
          network,  \* the http.Network value the tlock API works with
          box,      \* the container at hand (output of the last encryption)
          res,      \* outcome of the last operation
          calls     \* the method calls in progress on the shared network

vars == <<clock, latest, network, box, res, calls>>

----------------------------------------------------------------------------
(* Bounds of the model *)

MaxClock == 3
Period == 2
Genesis == 1
MaxRound == 3
BigLen == 5000

----------------------------------------------------------------------------
(* Values *)

Nil == "nil"
NoBox == [kind |-> "none"]

Min(a, b) == IF a < b THEN a ELSE b

\* Chains the beacon host serves, and the scheme of each.
Unchained == "pedersen-bls-unchained"
Chained == "pedersen-bls-chained"
Scheme == [c1 |-> Unchained, c2 |-> Chained]
Hosted == {"c1", "c2"}
\* Chain hash strings a caller or a container may carry: the hosted ones, a
\* well-formed hash of a chain the host does not serve, and a non-hex string.
ChainArgs == {"c1", "c2", "c0", "zz"}
IsHex(c) == c # "zz"
ChainHashLen == 64

\* Payloads: (length in bytes, content tag).
FileKeyLong == [len |-> 16, tag |-> 1]
Payloads == {[len |-> 0, tag |-> 0], FileKeyLong, [len |-> BigLen, tag |-> 2]}

\* Destinations an encryption writes to: one that takes every byte, and one
\* whose Write fails (a closed file, a full disk).
Dsts == {"ok", "failing"}

\* Transport faults injected into one operation.
Faults == {"none", "info", "get"}

\* Goroutines that share one network value, and the frame of a goroutine
\* that is in no call.
Goroutines == {"g1", "g2"}
Idle == [op |-> "none", pc |-> "idle", round |-> 0, ret |-> Nil]

----------------------------------------------------------------------------
(* The beacon network *)

\* chain.CurrentRound, as called through client.RoundAt.
RoundAt(t) == IF t < Genesis THEN 1 ELSE ((t - Genesis) \div Period) + 1

\* SHA-256 of the 8-byte big-endian round number (chain.RoundToBytes).
RoundHash(n) == <<"sha256", n>>

\* The message a beacon of chain c signs for round n.
BeaconMessage(c, n) ==
    IF Scheme[c] = Unchained THEN RoundHash(n) ELSE <<"chained", c, n>>

\* The signature bytes of round n on chain c.
Signature(c, n) == <<"sig", c, n>>

\* client.Info: the chain information, or an error.
clientInfo(chainHash, fault) ==
    IF fault = "info" \/ chainHash \notin Hosted
    THEN [err |-> "getting client information", chain |-> Nil]
    ELSE [err |-> Nil, chain |-> chainHash]

\* client.Get: the beacon of a round, or an error (404 / EOF when the round
\* does not exist yet).
clientGet(chainHash, round, fault) ==
    IF fault = "get" THEN [err |-> "transport", round |-> 0, sig |-> Nil]
    ELSE IF round < 1 \/ round > latest
         THEN [err |-> "EOF", round |-> 0, sig |-> Nil]
         ELSE [err |-> Nil, round |-> round, sig |-> Signature(chainHash, round)]

----------------------------------------------------------------------------
(* Identity based encryption (kyber ibe) *)

\* ibe.Encrypt: U is a compressed G1 point, V and W are as long as msg.
ibeEncrypt(master, ID, msg) ==
    [master |-> master, ID |-> ID, msg |-> msg]

ibeDecryptNoCheck(master, private, cipher) ==
    [err |-> Nil, data |-> cipher.msg]

ibeDecryptSigAsID(master, private, cipher) ==
    IF cipher.master = private[2] /\ cipher.ID = private
    THEN [err |-> Nil, data |-> cipher.msg]
    ELSE [err |-> "invalid proof", data |-> Nil]

\* ibe.Decrypt: private is a beacon signature <<"sig", c, n>>; it opens the
\* ciphertext iff it is the private key of the ciphertext's identity under the
\* master key the ciphertext was made with.
ibeDecrypt(master, private, cipher) ==
    IF /\ cipher.master = private[2]
       /\ cipher.ID = BeaconMessage(private[2], private[3])
    THEN [err |-> Nil, data |-> cipher.msg]
    ELSE [err |-> "invalid proof", data |-> Nil]

----------------------------------------------------------------------------
(* The length-prefixed container of foundation/drnd: encode and decode *)

BufSize == 4096
PointLen == 48
LenWidth == 10
HashLineLen == 9

RECURSIVE Digits(_)
Digits(n) == IF n < 10 THEN 1 ELSE 1 + Digits(n \div 10)

HeaderLines(b) == <<Digits(b.round) + 1, ChainHashLen + 1, HashLineLen>>

\* The number of bytes encode writes for a container.
TotalLen(b) ==
    HeaderLines(b)[1] + HeaderLines(b)[2] + HeaderLines(b)[3]
    + 3 * LenWidth + b.kpLen + b.vLen + b.wLen

\* encode: the layout of the bytes written for a ciphertext, a round and a
\* chain hash: three header lines, then three fields, each behind a ten digit
\* length.  kpLen, vLen and wLen are the lengths the prefixes declare, junk
\* the header numbers whose bytes are no number, size the number of bytes of
\* the container that are there.  made is a ghost: what the container was
\* when it was written.  The writes go through a bufio.Writer whose errors,
\* and the error of its deferred Flush, are dropped: what a failing dst
\* refuses is missing from the output and the error returned is nil.
encode(dst, cipher, roundID, chainHash) ==
    LET b == [kind |-> "box",
              round |-> roundID,
              chain |-> chainHash,
              cipher |-> cipher,
              kpLen |-> PointLen,
              vLen |-> cipher.msg.len,
              wLen |-> cipher.msg.len,
              junk |-> {},
              made |-> [round |-> roundID, chain |-> chainHash]]
    IN  [err |-> Nil,
         out |-> b @@ [size |-> IF dst = "ok" THEN TotalLen(b) ELSE 0]]

\* A bufio.Reader over a source of total bytes that hands out at most chunk
\* bytes per Read: src counts the bytes fetched from the source, cons the
\* bytes handed to the caller.
rdInit == [src |-> 0, cons |-> 0]
Buffered(s) == s.src - s.cons

\* bufio.Reader.ReadString for a line of l bytes (delimiter included): fill
\* the buffer until the delimiter is in it; EOF when the source ends first.
\* The header lines are shorter than the buffer, a line that is not stops the
\* recursion here.
RECURSIVE rdReadString(_, _, _, _)
rdReadString(s, total, chunk, l) ==
    IF s.src >= s.cons + l
    THEN [s |-> [s EXCEPT !.cons = @ + l], err |-> Nil]
    ELSE IF s.src >= total \/ Buffered(s) >= BufSize
         THEN [s |-> s, err |-> "EOF"]
         ELSE rdReadString(
                [s EXCEPT !.src = @ + Min(Min(chunk, BufSize - Buffered(s)),
                                          total - s.src)],
                total, chunk, l)

\* bufio.Reader.Read into a slice of k bytes: what is buffered, else one Read
\* of the source; never more than one, so n may be less than k.
rdRead(s, total, chunk, k) ==
    IF k = 0 THEN [s |-> s, n |-> 0, err |-> Nil]
    ELSE IF Buffered(s) > 0
    THEN LET n == Min(k, Buffered(s))
         IN [s |-> [s EXCEPT !.cons = @ + n], n |-> n, err |-> Nil]
    ELSE IF s.src >= total
    THEN [s |-> s, n |-> 0, err |-> "EOF"]
    ELSE IF k >= BufSize
    THEN LET n == Min(Min(k, chunk), total - s.src)
         IN [s |-> [src |-> s.src + n, cons |-> s.cons + n],
             n |-> n, err |-> Nil]
    ELSE LET got == Min(Min(BufSize, chunk), total - s.src)
             n == Min(k, got)
         IN [s |-> [src |-> s.src + got, cons |-> s.cons + n],
             n |-> n, err |-> Nil]

decodeFail(msg) ==
    [err |-> msg, roundID |-> 0, chainHash |-> Nil,
     kyberPoint |-> 0, cipherV |-> 0, cipherW |-> 0]

\* make([]byte, n) with a negative n.
PanicMakeslice == "panic: runtime error: makeslice: len out of range"

\* decode: the parts of a container b read through a reader of the given
\* chunk size.  kyberPoint, cipherV and cipherW give the number of bytes of
\* the field that were actually read.  A length read at a wrong offset (the
\* field before it was not consumed to its end), or read short, holds bytes
\* that are not digits and fails in strconv.Atoi.
decode(b, chunk) ==
    LET total == b.size
        h == HeaderLines(b)
        r1 == rdReadString(rdInit, total, chunk, h[1])
        r2 == rdReadString(r1.s, total, chunk, h[2])
        r3 == rdReadString(r2.s, total, chunk, h[3])
        k1 == rdRead(r3.s, total, chunk, LenWidth)
        p1 == rdRead(k1.s, total, chunk, b.kpLen)
        k2 == rdRead(p1.s, total, chunk, LenWidth)
        p2 == rdRead(k2.s, total, chunk, b.vLen)
        k3 == rdRead(p2.s, total, chunk, LenWidth)
        p3 == rdRead(k3.s, total, chunk, b.wLen)
    IN  IF r1.err # Nil THEN decodeFail("failed to read roundID")
        ELSE IF "round" \in b.junk THEN decodeFail("failed to convert round")
        ELSE IF r2.err # Nil THEN decodeFail("failed to read chain hash")
        ELSE IF r3.err # Nil THEN decodeFail("failed to read header hash")
        ELSE IF k1.err # Nil THEN decodeFail("failed to read kp length")
        ELSE IF k1.n < LenWidth \/ "kp" \in b.junk
             THEN decodeFail("failed to decode kp length")
        ELSE IF b.kpLen < 0 THEN decodeFail(PanicMakeslice)
        ELSE IF p1.err # Nil THEN decodeFail("failed to read kyberPoint")
        ELSE IF k2.err # Nil THEN decodeFail("failed to read v length")
        ELSE IF k2.n < LenWidth \/ p1.n # PointLen \/ "v" \in b.junk
             THEN decodeFail("failed to decode v length")
        ELSE IF b.vLen < 0 THEN decodeFail(PanicMakeslice)
        ELSE IF p2.err # Nil THEN decodeFail("failed to read cipherV")
        ELSE IF k3.err # Nil THEN decodeFail("failed to read w length")
        ELSE IF k3.n < LenWidth \/ p2.n # b.cipher.msg.len \/ "w" \in b.junk
             THEN decodeFail("failed to decode w length")
        ELSE IF b.wLen < 0 THEN decodeFail(PanicMakeslice)
        ELSE IF p3.err # Nil THEN decodeFail("failed to read cipherW")
        ELSE [err |-> Nil, roundID |-> b.round, chainHash |-> b.chain,
              kyberPoint |-> p1.n, cipherV |-> p2.n, cipherW |-> p3.n]

----------------------------------------------------------------------------
(* foundation/drnd: EncryptWithRound, EncryptWithDuration, Decrypt *)

MaxDur == 2
SmallChunk == 100

\* Durations a caller may pass (time.Duration is signed), in ticks.
Durations == (0 - 1) .. MaxDur
Rounds == 1 .. MaxRound

\* How the source handed to decode delivers its bytes: everything that is
\* asked for (a bytes.Buffer, a file), or at most SmallChunk bytes per Read.
Readers == {"whole", "chunked"}
ChunkOf(b, reader) == IF reader = "whole" THEN b.size ELSE SmallChunk

Result(op, err, data, gets, fault, reader) ==
    [op |-> op, err |-> err, data |-> data, gets |-> gets,
     fault |-> fault, reader |-> reader]

\* retrieveNetworkInfo: the client and the chain information of a chain hash.
retrieveNetworkInfo(chainHash, fault) ==
    IF ~IsHex(chainHash) THEN [err |-> "decoding chain hash", chain |-> Nil]
    ELSE clientInfo(chainHash, fault)

\* calculateRound: the round at now + duration and its identity hash.
calculateRound(duration) ==
    [roundID |-> RoundAt(clock + duration),
     roundIDHash |-> RoundHash(RoundAt(clock + duration))]

\* encrypt: IBE-encrypt the whole input under the given identity bytes and
\* encode the result to dst.
encrypt(dst, msg, ni, chainHash, round, roundSignature) ==
    LET e == encode(dst, ibeEncrypt(ni.chain, roundSignature, msg), round,
                    chainHash)
    IN  IF e.err # Nil THEN [err |-> "encode", out |-> e.out] ELSE e

\* The identity EncryptWithRound hands to encrypt: the signature bytes of the
\* beacon it fetched.
EncryptWithRoundIdentity(roundData) == roundData.sig

EncryptWithRound(dst, msg, chainHash, round, fault) ==
    LET ni == retrieveNetworkInfo(chainHash, fault)
        roundData == clientGet(chainHash, round, fault)
        e == encrypt(dst, msg, ni, chainHash, roundData.round,
                     EncryptWithRoundIdentity(roundData))
        out(err, gets) ==
            Result("EncryptWithRound", err, Nil, gets, fault, Nil)
    IN  /\ UNCHANGED <<calls, clock, latest, network>>
        /\ IF ni.err # Nil
           THEN /\ res' = out("network info", <<>>)
                /\ UNCHANGED box
           ELSE IF roundData.err # Nil
           THEN /\ res' = out("client get round", <<round>>)
                /\ UNCHANGED box
           ELSE /\ res' = out(e.err, <<round>>)
                /\ box' = e.out

EncryptWithDuration(dst, msg, chainHash, duration, fault) ==
    LET ni == retrieveNetworkInfo(chainHash, fault)
        cr == calculateRound(duration)
        e == encrypt(dst, msg, ni, chainHash, cr.roundID, cr.roundIDHash)
        out(err) == Result("EncryptWithDuration", err, Nil, <<>>, fault, Nil)
    IN  /\ fault # "get"
        /\ UNCHANGED <<calls, clock, latest, network>>
        /\ IF ni.err # Nil
           THEN /\ res' = out("network info")
                /\ UNCHANGED box
           ELSE /\ res' = out(e.err)
                /\ box' = e.out

\* Decrypt: decode the container, fetch the chain information of the chain
\* hash found in it and the beacon of the round found in it, and IBE-decrypt.
Decrypt(reader, fault) ==
    LET di == decode(box, ChunkOf(box, reader))
        ni == retrieveNetworkInfo(di.chainHash, fault)
        clientResult == clientGet(di.chainHash, di.roundID, fault)
        out(err, data, gets) ==
            Result("Decrypt", err, data, gets, fault, reader)
    IN  /\ box.kind = "box"
        /\ UNCHANGED <<calls, clock, latest, network, box>>
        /\ IF di.err # Nil THEN res' = out("decode", Nil, <<>>)
           ELSE IF ni.err # Nil THEN res' = out("network info", Nil, <<>>)
           ELSE IF clientResult.err # Nil
           THEN res' = out("client get round", Nil, <<di.roundID>>)
           ELSE IF di.kyberPoint < box.kpLen
           THEN res' = out("unmarshal kyber G1", Nil, <<di.roundID>>)
           ELSE LET d == IF di.cipherV < box.vLen \/ di.cipherW < box.wLen
                         THEN [err |-> "invalid proof", data |-> Nil]
                         ELSE ibeDecrypt(ni.chain, clientResult.sig,
                                         box.cipher)
                IN IF d.err # Nil
                   THEN res' = out("decrypt", Nil, <<di.roundID>>)
                   ELSE res' = out(Nil, d.data, <<di.roundID>>)

NoResult == Result("none", Nil, Nil, <<>>, "none", Nil)

\* The environment: somebody edits the round or the chain hash stored in the
\* header of the container.  res describes the operation that has just
\* finished; a step of the environment clears it.
TamperRound(n) ==
    /\ box.kind \in {"box", "age"}
    /\ n # box.round
    /\ box' = [box EXCEPT !.round = n]
    /\ res' = NoResult
    /\ UNCHANGED <<calls, clock, latest, network>>

TamperChain(c) ==
    /\ box.kind \in {"box", "age"}
    /\ c # box.chain
    /\ box' = [box EXCEPT !.chain = c]
    /\ res' = NoResult
    /\ UNCHANGED <<calls, clock, latest, network>>

\* The environment: time passes; the network publishes the next round, at the
\* latest before the round after it starts.
Tick ==
    /\ clock < MaxClock
    /\ latest >= RoundAt(clock + 1) - 1
    /\ clock' = clock + 1
    /\ res' = NoResult
    /\ UNCHANGED <<calls, latest, network, box>>

Publish ==
    /\ clock >= Genesis
    /\ latest < RoundAt(clock)
    /\ latest' = latest + 1
    /\ res' = NoResult
    /\ UNCHANGED <<calls, clock, network, box>>

NoNetwork == [kind |-> "none"]

Init ==
    /\ clock = 0
    /\ latest = 0
    /\ network = NoNetwork
    /\ box = NoBox
    /\ res = NoResult
    /\ calls = [g \in Goroutines |-> Idle]

\* A destination that fails is tried with one payload, over a working
\* transport.
Next ==
    \/ Tick
    \/ Publish
    \/ \E msg \in Payloads, c \in ChainArgs, n \in Rounds, f \in Faults :
          EncryptWithRound("ok", msg, c, n, f)
    \/ \E msg \in Payloads, c \in ChainArgs, d \in Durations, f \in Faults :
          EncryptWithDuration("ok", msg, c, d, f)
    \/ \E dst \in Dsts \ {"ok"}, c \in Hosted, n \in Rounds :
          EncryptWithRound(dst, FileKeyLong, c, n, "none")
    \/ \E dst \in Dsts \ {"ok"}, c \in Hosted, d \in Durations :
          EncryptWithDuration(dst, FileKeyLong, c, d, "none")
    \/ \E r \in Readers, f \in Faults : Decrypt(r, f)
    \/ \E n \in Rounds : TamperRound(n)
    \/ \E c \in ChainArgs : TamperChain(c)

Spec == Init /\ [][Next]_vars

----------------------------------------------------------------------------
(* networks/http: Network (NewNetwork) and its predecessor HTTP (New) *)

ErrNotUnchained == "hash does not belong to an unchained network"
ErrTooEarly == "too early to decrypt"
FileKeySize == 16

NetworkValue(kind, chainHash, c, publicKey) ==
    [kind |-> kind, chainHash |-> chainHash, c |-> c, publicKey |-> publicKey]

\* Network.client / HTTP.Client: the client, constructed on first use and
\* kept in the c field.
client(n) ==
    IF n.c THEN [err |-> Nil, n |-> n]
    ELSE IF ~IsHex(n.chainHash)
         THEN [err |-> "decoding chain hash", n |-> n]
         ELSE [err |-> Nil, n |-> [n EXCEPT !.c = TRUE]]

NewNetworkAnyScheme(chainHash, fault) ==
    LET n == NetworkValue("Network", chainHash, FALSE, Nil)
        cl == client(n)
        info == clientInfo(chainHash, fault)
        out(err, nw) ==
            [chainHash |-> chainHash]
            @@ Result("NewNetwork", err, nw, <<>>, fault, Nil)
    IN  /\ fault # "get"
        /\ UNCHANGED <<calls, clock, latest, box>>
        /\ IF cl.err # Nil
           THEN res' = out(cl.err, NoNetwork) /\ UNCHANGED network
           ELSE IF info.err # Nil
           THEN res' = out(info.err, NoNetwork) /\ UNCHANGED network
           ELSE res' = out(Nil, cl.n) /\ network' = cl.n

\* NewNetwork: a Network for a chain hash, refused unless the chain is an
\* unchained one.  res.data is the *Network returned (NoNetwork for nil),
\* res.chainHash the argument.
NewNetwork(chainHash, fault) ==
    LET n == NetworkValue("Network", chainHash, FALSE, Nil)
        cl == client(n)
        info == clientInfo(chainHash, fault)
        out(err, nw) ==
            [chainHash |-> chainHash]
            @@ Result("NewNetwork", err, nw, <<>>, fault, Nil)
    IN  /\ fault # "get"
        /\ UNCHANGED <<calls, clock, latest, box>>
        /\ IF cl.err # Nil
           THEN res' = out(cl.err, NoNetwork) /\ UNCHANGED network
           ELSE IF info.err # Nil
           THEN res' = out(info.err, NoNetwork) /\ UNCHANGED network
           ELSE IF Scheme[info.chain] # Unchained
           THEN res' = out(ErrNotUnchained, NoNetwork) /\ UNCHANGED network
           ELSE res' = out(Nil, cl.n) /\ network' = cl.n

\* Network.PublicKey: the public key of the chain, fetched on first use and
\* kept in the publicKey field.
PublicKey(n, fault) ==
    IF n.publicKey # Nil THEN [err |-> Nil, key |-> n.publicKey, n |-> n]
    ELSE LET cl == client(n)
             info == clientInfo(n.chainHash, fault)
         IN IF cl.err # Nil THEN [err |-> cl.err, key |-> Nil, n |-> n]
            ELSE IF info.err # Nil
            THEN [err |-> info.err, key |-> Nil, n |-> cl.n]
            ELSE [err |-> Nil, key |-> info.chain,
                  n |-> [cl.n EXCEPT !.publicKey = info.chain]]

IsReadyToDecryptAlways(n, roundNumber, fault) ==
    [sig |-> Signature(n.chainHash, roundNumber), ready |-> TRUE, n |-> n]

\* Network.IsReadyToDecrypt: the signature of a round and true, or nil and
\* false on any error of the client or of the request.
IsReadyToDecrypt(n, roundNumber, fault) ==
    LET cl == client(n)
        result == clientGet(n.chainHash, roundNumber, fault)
    IN IF cl.err # Nil THEN [sig |-> Nil, ready |-> FALSE, n |-> n]
       ELSE IF result.err # Nil
       THEN [sig |-> Nil, ready |-> FALSE, n |-> cl.n]
       ELSE [sig |-> result.sig, ready |-> TRUE, n |-> cl.n]

\* Network.RoundNumber: the round of a point in time.
RoundNumber(n, t) == RoundAt(t)

\* New: an HTTP value for a chain hash; nothing is checked.
New(chainHash) ==
    /\ chainHash \in Hosted \cup {"zz"}
    /\ network' = NetworkValue("HTTP", chainHash, FALSE, Nil)
    /\ res' = Result("New", Nil, Nil, <<>>, "none", Nil)
    /\ UNCHANGED <<calls, clock, latest, box>>

\* HTTP.RoundByNumber: the round and signature of a round; when the request
\* fails with EOF the signature is replaced by the hash of the round number.
RoundByNumber(roundNumber, fault) ==
    LET cl == client(network)
        result == clientGet(network.chainHash, roundNumber, fault)
        out(err, data, gets) ==
            Result("RoundByNumber", err, data, gets, fault, Nil)
    IN  /\ network.kind = "HTTP"
        /\ fault # "info"
        /\ UNCHANGED <<calls, clock, latest, box>>
        /\ IF cl.err # Nil
           THEN res' = out("client", Nil, <<>>) /\ UNCHANGED network
           ELSE /\ network' = cl.n
                /\ IF result.err = "EOF"
                   THEN res' = out(Nil, <<roundNumber, RoundHash(roundNumber)>>,
                                   <<roundNumber>>)
                   ELSE IF result.err # Nil
                   THEN res' = out("client get round", Nil, <<roundNumber>>)
                   ELSE res' = out(Nil, <<result.round, result.sig>>,
                                   <<roundNumber>>)

----------------------------------------------------------------------------
(* The tlock package: TimeLock, TimeUnlock, Encrypt, Decrypt *)

FileKeys == {[len |-> FileKeySize, tag |-> 1], [len |-> FileKeySize, tag |-> 2]}

\* TimeLock: IBE-encrypt data for a round under the public key of the chain.
timeLock(publicKey, round, data) ==
    ibeEncrypt(publicKey, RoundHash(round), data)

\* TimeUnlock: IBE-decrypt with the signature of a beacon.
timeUnlock(publicKey, beacon, cipherText) ==
    ibeDecrypt(publicKey, beacon, cipherText)

TimeLock(round, data, fault) ==
    LET pk == PublicKey(network, fault)
        out(err) == Result("TimeLock", err, Nil, <<>>, fault, Nil)
    IN  /\ network.kind = "Network"
        /\ fault # "get"
        /\ UNCHANGED <<calls, clock, latest>>
        /\ network' = pk.n
        /\ IF pk.err # Nil
           THEN res' = out(pk.err) /\ UNCHANGED box
           ELSE /\ res' = out(Nil)
                /\ box' = [kind |-> "ibe", round |-> round,
                           chain |-> network.chainHash,
                           cipher |-> timeLock(pk.key, round, data),
                           made |-> [round |-> round,
                                     chain |-> network.chainHash]]

\* TimeUnlock with the beacon of a published round n, fetched from the
\* network beforehand.
TimeUnlock(n) ==
    LET pk == PublicKey(network, "none")
        d == timeUnlock(pk.key, Signature(network.chainHash, n), box.cipher)
    IN  /\ network.kind = "Network"
        /\ box.kind = "ibe"
        /\ n <= latest
        /\ network' = pk.n
        /\ res' = Result("TimeUnlock", d.err, d.data, <<n>>, "none", Nil)
        /\ UNCHANGED <<calls, clock, latest, box>>

\* Encrypt: refuse a round in the past, wrap a fresh file key for the round
\* and encrypt the payload under the file key.
TlockEncrypt(msg, round, fileKey, fault) ==
    LET pk == PublicKey(network, fault)
        out(err) == Result("tlock.Encrypt", err, Nil, <<>>, fault, Nil)
    IN  /\ network.kind = "Network"
        /\ fault # "get"
        /\ UNCHANGED <<calls, clock, latest>>
        /\ IF round < RoundNumber(network, clock)
           THEN res' = out("round in past") /\ UNCHANGED <<network, box>>
           ELSE /\ network' = pk.n
                /\ IF pk.err # Nil
                   THEN res' = out(pk.err) /\ UNCHANGED box
                   ELSE /\ res' = out(Nil)
                        /\ box' = [kind |-> "age", round |-> round,
                                   chain |-> network.chainHash,
                                   cipher |-> timeLock(pk.key, round, fileKey),
                                   body |-> [key |-> fileKey, msg |-> msg],
                                   made |-> [round |-> round,
                                             chain |-> network.chainHash]]

\* Decrypt: check the chain hash of the container, ask the network for the
\* signature of its round, unwrap the file key and decrypt the payload.
TlockDecrypt(fault) ==
    LET rd == IsReadyToDecrypt(network, box.round, fault)
        pk == PublicKey(rd.n, fault)
        k == timeUnlock(pk.key, rd.sig, box.cipher)
        out(err, data, gets) ==
            Result("tlock.Decrypt", err, data, gets, fault, Nil)
    IN  /\ network.kind = "Network"
        /\ box.kind = "age"
        /\ UNCHANGED <<calls, clock, latest, box>>
        /\ IF box.chain # network.chainHash
           THEN res' = out("chain mismatch", Nil, <<>>) /\ UNCHANGED network
           ELSE IF ~rd.ready
           THEN res' = out(ErrTooEarly, Nil, <<box.round>>) /\ network' = rd.n
           ELSE /\ network' = pk.n
                /\ IF pk.err # Nil
                   THEN res' = out(pk.err, Nil, <<box.round>>)
                   ELSE IF k.err # Nil \/ k.data # box.body.key
                   THEN res' = out("integrity", Nil, <<box.round>>)
                   ELSE res' = out(Nil, box.body.msg, <<box.round>>)

NextTlock ==
    \/ Tick
    \/ Publish
    \/ \E c \in ChainArgs, f \in Faults : NewNetwork(c, f)
    \/ \E c \in ChainArgs : New(c)
    \/ \E n \in Rounds, f \in Faults : RoundByNumber(n, f)
    \/ \E n \in Rounds, k \in FileKeys, f \in Faults : TimeLock(n, k, f)
    \/ \E n \in Rounds : TimeUnlock(n)
    \/ \E msg \in Payloads, n \in Rounds, k \in FileKeys, f \in Faults :
          TlockEncrypt(msg, n, k, f)
    \/ \E f \in Faults : TlockDecrypt(f)
    \/ \E n \in Rounds : TamperRound(n)
    \/ \E c \in ChainArgs : TamperChain(c)

SpecTlock == Init /\ [][NextTlock]_vars

----------------------------------------------------------------------------
(* The tle command: commands.Encrypt and parseDuration *)

MaxDurLen == 3

\* Duration strings are sequences of characters.  One tick is one second.
DurChars == {"-", "1", "s", "d", "M", "y", "x"}
DurStrings == UNION {[1 .. k -> DurChars] : k \in 0 .. MaxDurLen}
DigitValue ==
    [ch \in {"0", "1", "2", "3", "4", "5", "6", "7", "8", "9"} |->
        CASE ch = "0" -> 0 [] ch = "1" -> 1 [] ch = "2" -> 2 [] ch = "3" -> 3
          [] ch = "4" -> 4 [] ch = "5" -> 5 [] ch = "6" -> 6 [] ch = "7" -> 7
          [] ch = "8" -> 8 [] ch = "9" -> 9]
IsDigit(ch) == ch \in DOMAIN DigitValue
Day == 24 * 60 * 60
Month == 30 * Day
Year == 365 * Day

RECURSIVE Decimal(_)
Decimal(str) ==
    IF str = <<>> THEN 0
    ELSE 10 * Decimal(SubSeq(str, 1, Len(str) - 1))
         + DigitValue[str[Len(str)]]

AllDigits(str) == \A i \in 1 .. Len(str) : IsDigit(str[i])

\* strconv.Atoi: an optional sign and at least one digit, nothing else.
Atoi(str) ==
    LET neg == Len(str) > 0 /\ str[1] = "-"
        body == IF neg THEN Tail(str) ELSE str
    IN IF body = <<>> \/ ~AllDigits(body) THEN [ok |-> FALSE, val |-> 0]
       ELSE [ok |-> TRUE,
             val |-> IF neg THEN 0 - Decimal(body) ELSE Decimal(body)]

\* The length of the longest prefix of str made of digits (d = TRUE) or of
\* characters that are no digits (d = FALSE).
RECURSIVE Run(_, _)
Run(str, d) ==
    IF str = <<>> \/ IsDigit(str[1]) # d THEN 0 ELSE 1 + Run(Tail(str), d)

\* The groups of time.ParseDuration: digits followed by a unit, at least once.
\* Of the units of the standard grammar the alphabet has "s".
RECURSIVE ParseGroups(_)
ParseGroups(str) ==
    LET nd == Run(str, TRUE)
        rest == SubSeq(str, nd + 1, Len(str))
        nu == Run(rest, FALSE)
        unit == SubSeq(rest, 1, nu)
        tail == SubSeq(rest, nu + 1, Len(rest))
        more == ParseGroups(tail)
    IN IF nd = 0 \/ unit # <<"s">> THEN [ok |-> FALSE, val |-> 0]
       ELSE IF tail = <<>>
       THEN [ok |-> TRUE, val |-> Decimal(SubSeq(str, 1, nd))]
       ELSE IF ~more.ok THEN [ok |-> FALSE, val |-> 0]
       ELSE [ok |-> TRUE, val |-> Decimal(SubSeq(str, 1, nd)) + more.val]

\* time.ParseDuration: an optional sign, then "0" or the groups.
ParseDuration(str) ==
    LET neg == Len(str) > 0 /\ str[1] = "-"
        body == IF neg THEN Tail(str) ELSE str
        g == IF body = <<"0">> THEN [ok |-> TRUE, val |-> 0]
             ELSE ParseGroups(body)
    IN IF ~g.ok THEN g
       ELSE [ok |-> TRUE, val |-> IF neg THEN 0 - g.val ELSE g.val]

Count(str, ch) == Cardinality({i \in 1 .. Len(str) : str[i] = ch})
Before(str, ch) ==
    SubSeq(str, 1, (CHOOSE i \in 1 .. Len(str) : str[i] = ch) - 1)
ContainsAny(str, chars) == \E i \in 1 .. Len(str) : str[i] \in chars

ErrInvalidDuration == "invalid duration unit"

\* The branch of parseDuration for one extended unit: strings.Split gives two
\* pieces when the unit occurs exactly once, and the first piece is the count.
parsePiece(str, ch, unit, what) ==
    LET n == Atoi(Before(str, ch))
    IN IF ~n.ok THEN [err |-> what, d |-> 1]
       ELSE [err |-> Nil, d |-> n.val * unit]

\* parseDuration: the standard grammar, then days, months and years.
parseDuration(duration) ==
    LET d == ParseDuration(duration)
    IN IF d.ok THEN [err |-> Nil, d |-> d.val]
       ELSE IF ~ContainsAny(duration, {"d", "M", "y"})
       THEN [err |-> ErrInvalidDuration, d |-> 1]
       ELSE IF Count(duration, "d") = 1
       THEN parsePiece(duration, "d", Day, "parse day duration")
       ELSE IF Count(duration, "M") = 1
       THEN parsePiece(duration, "M", Month, "parse month duration")
       ELSE IF Count(duration, "y") = 1
       THEN parsePiece(duration, "y", Year, "parse year duration")
       ELSE [err |-> "parse duration", d |-> 1]

\* parseDuration on its own: a duration string is drawn, then parsed.
InitDuration ==
    /\ clock = 0
    /\ latest = 0
    /\ network = NoNetwork
    /\ box = NoBox
    /\ calls = [g \in Goroutines |-> Idle]
    /\ \E duration \in DurStrings :
          res = [op |-> "input", duration |-> duration]

ParseDurationCall ==
    /\ res.op = "input"
    /\ res' = [op |-> "parseDuration", duration |-> res.duration]
              @@ parseDuration(res.duration)
    /\ UNCHANGED <<calls, clock, latest, network, box>>

SpecDuration == InitDuration /\ [][ParseDurationCall]_vars

\* What reaches dst: the armor writer puts its header before the first byte
\* written through it, and its footer when it is closed.
ArmorHeader == "-----BEGIN AGE ENCRYPTED FILE-----"
ArmorFooter == "-----END AGE ENCRYPTED FILE-----"
Written(armor, payload) ==
    IF ~armor THEN payload
    ELSE IF payload = <<>> THEN <<ArmorFooter>>
    ELSE <<ArmorHeader>> \o payload \o <<ArmorFooter>>

\* tlock.Encrypt as commands.Encrypt calls it: the error, the bytes written
\* and the network left behind.
tlockEncrypt(n, round, fault) ==
    LET pk == PublicKey(n, fault)
    IN IF round < RoundNumber(n, clock)
       THEN [err |-> "round in past", out |-> <<>>, n |-> n]
       ELSE IF pk.err # Nil THEN [err |-> pk.err, out |-> <<>>, n |-> pk.n]
       ELSE [err |-> Nil, out |-> <<"age">>, n |-> pk.n]

CmdResult(flags, err, called, dst, closeErr) ==
    [op |-> "commands.Encrypt", armor |-> flags.Armor, round |-> flags.Round,
     err |-> err, called |-> called, dst |-> dst, closeErr |-> closeErr]

\* commands.Encrypt.  called is the round tlock.Encrypt was invoked with, 0
\* when it was not invoked.  With the fault "close" the last write to dst,
\* the one of the deferred a.Close(), fails: the footer is missing, the error
\* is printed (closeErr) and is no part of what Encrypt returns.
CommandsEncrypt(flags, fault) ==
    LET pd == parseDuration(flags.Duration)
        byRound == tlockEncrypt(network, flags.Round, fault)
        roundNumber == RoundNumber(network, clock + pd.d)
        byDuration == tlockEncrypt(network, roundNumber, fault)
        closeErr == IF flags.Armor /\ fault = "close"
                    THEN "Error while closing" ELSE Nil
        dst(payload) ==
            IF closeErr = Nil THEN Written(flags.Armor, payload)
            ELSE IF payload = <<>> THEN <<>>
            ELSE <<ArmorHeader>> \o payload
    IN  /\ network.kind = "Network"
        /\ UNCHANGED <<calls, clock, latest, box>>
        /\ IF flags.Round # 0
           THEN IF flags.Round < RoundNumber(network, clock)
                THEN /\ res' = CmdResult(flags, "round is in the past", 0,
                                         dst(<<>>), closeErr)
                     /\ UNCHANGED network
                ELSE /\ res' = CmdResult(flags, byRound.err, flags.Round,
                                         dst(byRound.out), closeErr)
                     /\ network' = byRound.n
           ELSE IF flags.Duration # <<>>
           THEN IF pd.err # Nil
                THEN /\ res' = CmdResult(flags, pd.err, 0, dst(<<>>),
                                         closeErr)
                     /\ UNCHANGED network
                ELSE /\ res' = CmdResult(flags, byDuration.err, roundNumber,
                                         dst(byDuration.out), closeErr)
                     /\ network' = byDuration.n
           ELSE /\ res' = CmdResult(flags, Nil, 0, dst(<<>>), closeErr)
                /\ UNCHANGED network

\* The flags of one invocation.  The duration is looked at only when no
\* round is given, so with a round two durations stand for all.
FlagSets ==
    {[Armor |-> a, Round |-> 0, Duration |-> d] :
        a \in BOOLEAN, d \in DurStrings}
    \cup {[Armor |-> a, Round |-> r, Duration |-> d] :
        a \in BOOLEAN, r \in Rounds, d \in {<<>>, <<"1", "s">>}}

NextCmd ==
    \/ Tick
    \/ Publish
    \/ \E c \in ChainArgs, f \in Faults : NewNetwork(c, f)
    \/ \E flags \in FlagSets, f \in {"none", "info", "close"} :
          /\ f = "close" => (flags.Armor /\ flags.Duration \in {<<>>, <<"1", "s">>})
          /\ CommandsEncrypt(flags, f)

SpecCmd == Init /\ [][NextCmd]_vars

----------------------------------------------------------------------------
(* The tle command line: parseFlags, validateFlags and run *)

MaxFile == 2

\* What a command line may give: the switches -e, -d and -a, the option -o
\* ("" when it is not given) and, for the options in given, a value of -r and
\* of -D.
CliRounds == {0 - 1, 1, 2}
CliDurations == {<<"1", "s">>, <<"1", "2", "0", "d">>, <<"1", "d", "1">>}
Args ==
    {[e |-> e, d |-> d, a |-> a, o |-> o, given |-> g, r |-> r, D |-> dur] :
        e \in BOOLEAN, d \in BOOLEAN, a \in BOOLEAN, o \in {"", "out"},
        g \in SUBSET {"r", "D"},
        r \in CliRounds \cup {0}, dur \in CliDurations \cup {<<>>}}

\* parseFlags: the flags of a command line; an option that is not given has
\* the zero value of its type.
parseFlags(args) ==
    [encryptFlag |-> args.e,
     decryptFlag |-> args.d,
     roundFlag |-> IF "r" \in args.given THEN args.r ELSE 0,
     durationFlag |-> IF "D" \in args.given THEN args.D ELSE <<>>,
     outputFlag |-> args.o,
     armorFlag |-> args.a]

\* validateFlags: the error of the sanity check, or nil.
validateFlags(f) ==
    IF f.decryptFlag /\ f.encryptFlag
    THEN "-e/--encrypt can't be used with -d/--decrypt"
    ELSE IF f.decryptFlag /\ f.armorFlag
    THEN "-a/--armor can't be used with -d/--decrypt"
    ELSE IF f.decryptFlag /\ f.durationFlag # <<>>
    THEN "-D/--duration can't be used with -d/--decrypt"
    ELSE IF f.roundFlag < 0 THEN "-r/--round should be a positive integer"
    ELSE Nil

ErrDurationFormat ==
    "-D/--duration must be a string with a duration format; Default 120d"

\* The file named by -o: box is NoBox while there is none, else its bytes
\* (each tagged with who wrote it) and whether its mode lets the user, who is
\* not the superuser, open it for writing.
File(content, writable) ==
    [kind |-> "file", content |-> content, writable |-> writable]

\* os.OpenFile(name, os.O_CREATE|os.O_WRONLY, os.ModeAppend): a file that
\* exists is opened as it is, at offset 0; one that does not is created
\* empty, with no permission bit set.
OpenFile(file) ==
    IF file.kind = "none" THEN [err |-> Nil, file |-> File(<<>>, FALSE)]
    ELSE IF ~file.writable THEN [err |-> "permission denied", file |-> file]
    ELSE [err |-> Nil, file |-> file]

\* Writing the bytes of out through the descriptor, from offset 0.
WriteAt0(file, out) ==
    [file EXCEPT !.content =
        out \o SubSeq(file.content, Len(out) + 1, Len(file.content))]

\* run: validate the flags, parse the duration, open the input and the
\* output, create the drand client and hand over to the command.  reached is
\* the command that was called, dur the duration it was called with, cmdErr
\* what the command returns and out what it writes.
run(args, fault, cmdErr, out, file) ==
    LET flags == parseFlags(args)
        valid == validateFlags(flags)
        dur == ParseDuration(flags.durationFlag)
        w == IF flags.outputFlag = "" THEN [err |-> Nil, file |-> file]
             ELSE OpenFile(file)
        written == IF flags.outputFlag = "" THEN file
                   ELSE WriteAt0(w.file, out)
        ret(err, reached, d, o, f) ==
            [op |-> "run", flags |-> flags, fault |-> fault, valid |-> valid,
             err |-> err, reached |-> reached, dur |-> d, out |-> o,
             file |-> f]
    IN  IF valid # Nil THEN ret(valid, "none", 0, <<>>, file)
        ELSE IF ~dur.ok THEN ret(ErrDurationFormat, "none", 0, <<>>, file)
        ELSE IF fault = "input"
        THEN ret("failed to open input file", "none", 0, <<>>, file)
        ELSE IF w.err # Nil
        THEN ret("failed to open output file", "none", 0, <<>>, w.file)
        ELSE IF fault # "none"
        THEN ret("failed to create Drand client", "none", 0, <<>>, w.file)
        ELSE IF flags.decryptFlag
        THEN ret(cmdErr, "commands.Decrypt", 0, out, written)
        ELSE ret(cmdErr, "commands.Encrypt", dur.val, out, written)

\* main: one invocation of the command; it exits with 1 (log.Fatal) when run
\* returns an error and with 0 otherwise.
Main(args, fault, cmdErr, out) ==
    LET r == run(args, fault, cmdErr, out, box)
    IN  /\ res' = [op |-> r.op, flags |-> r.flags, fault |-> r.fault,
                   valid |-> r.valid, err |-> r.err, reached |-> r.reached,
                   dur |-> r.dur, out |-> r.out,
                   exit |-> IF r.err = Nil THEN 0 ELSE 1]
        /\ box' = r.file
        /\ UNCHANGED <<calls, clock, latest, network>>

\* The environment: another program leaves a file under the name of -o.
CreateFile(n) ==
    /\ box = NoBox
    /\ box' = File([i \in 1 .. n |-> "old"], TRUE)
    /\ res' = NoResult
    /\ UNCHANGED <<calls, clock, latest, network>>

\* What happens in a run beside the command line: a failure to open the
\* input or to reach the network, a command that fails, or one that writes a
\* result of some length.
Outcomes ==
    {[fault |-> f, cmdErr |-> Nil, out |-> <<>>] : f \in {"input", "info"}}
    \cup {[fault |-> "none", cmdErr |-> "command", out |-> <<>>]}
    \cup {[fault |-> "none", cmdErr |-> Nil, out |-> [i \in 1 .. n |-> "new"]] :
            n \in 1 .. MaxFile}

\* Command lines without -o: the result goes to the standard output.
NextCli ==
    \E args \in Args, oc \in Outcomes :
        /\ args.o = ""
        /\ "r" \in args.given <=> args.r # 0
        /\ "D" \in args.given <=> args.D # <<>>
        /\ Main(args, oc.fault, oc.cmdErr, oc.out)

SpecCli == Init /\ [][NextCli]_vars

\* Command lines with -o and -D and without -r, over a name that is free or
\* taken by a file of another program.
NextOut ==
    \/ \E n \in 0 .. MaxFile : CreateFile(n)
    \/ \E args \in Args, oc \in Outcomes :
          /\ args.o # ""
          /\ args.given = {"D"} /\ args.r = 0 /\ args.D # <<>>
          /\ Main(args, oc.fault, oc.cmdErr, oc.out)

SpecOut == Init /\ [][NextOut]_vars

----------------------------------------------------------------------------
(* One network value shared by concurrent calls.  A call runs as a sequence *)
(* of steps, one per access to a field of the network or per request; the   *)
(* code takes no lock, so the steps of two goroutines interleave freely.    *)

\* The methods a goroutine may call, by the kind of the network value.
Methods(kind) ==
    IF kind = "Network"
    THEN {"PublicKey", "IsReadyToDecrypt", "RoundNumber"}
    ELSE IF kind = "HTTP" THEN {"PublicKey", "RoundByNumber"}
    ELSE {}

\* The field a frame is about to access, and whether it writes it.
Access(f) ==
    CASE f.pc = "pk.read" -> [field |-> "publicKey", write |-> FALSE]
      [] f.pc = "pk.write" -> [field |-> "publicKey", write |-> TRUE]
      [] f.pc \in {"c.read", "hc.read1", "hc.read2"} ->
            [field |-> "c", write |-> FALSE]
      [] f.pc = "c.write" -> [field |-> "c", write |-> TRUE]
      [] OTHER -> [field |-> "none", write |-> FALSE]

\* Two goroutines are about to access the same field, one of them writing.
Conflict(g, h) ==
    /\ g # h
    /\ Access(calls[g]).field # "none"
    /\ Access(calls[g]).field = Access(calls[h]).field
    /\ Access(calls[g]).write \/ Access(calls[h]).write

\* What a read may see: the field as it is, or, while another goroutine is
\* writing the two-word interface value, a torn value (TRUE).
Torn(g) == IF \E h \in Goroutines : Conflict(g, h) THEN BOOLEAN ELSE {FALSE}

Quiet == \A g \in Goroutines : calls[g].pc \in {"idle", "done"}

goto(g, pc) == calls' = [calls EXCEPT ![g].pc = pc]
return(g, ret) == calls' = [calls EXCEPT ![g].pc = "done", ![g].ret = ret]

\* Where a method goes on once it has its client.
AfterClient(op) ==
    CASE op = "PublicKey" ->
            IF network.kind = "Network" THEN "info" ELSE "hc.read2"
      [] op \in {"IsReadyToDecrypt", "RoundByNumber"} -> "get"
      [] OTHER -> "roundAt"

\* A goroutine enters a method of the shared network.
Call(g, op, round) ==
    /\ calls[g].pc \in {"idle", "done"}
    /\ op \in Methods(network.kind)
    /\ round # 0 <=> op \in {"IsReadyToDecrypt", "RoundByNumber"}
    /\ calls' = [calls EXCEPT ![g] =
                    [op |-> op, round |-> round, ret |-> Nil,
                     pc |-> IF op = "PublicKey" THEN "pk.read" ELSE "c.read"]]
    /\ UNCHANGED <<clock, latest, network, box, res>>

\* PublicKey: if n.publicKey != nil { return n.publicKey, nil }
ReadPublicKey(g) ==
    /\ calls[g].pc = "pk.read"
    /\ \E torn \in Torn(g) :
          IF torn THEN return(g, "undefined")
          ELSE IF network.publicKey # Nil THEN return(g, Nil)
          ELSE IF network.kind = "Network" THEN goto(g, "c.read")
          ELSE goto(g, "hc.read1")
    /\ UNCHANGED <<clock, latest, network, box, res>>

\* HTTP.PublicKey: if n.client == nil { n.Client(ctx) }
ReadClientFirst(g) ==
    /\ calls[g].pc = "hc.read1"
    /\ \E torn \in Torn(g) :
          IF torn THEN return(g, "undefined")
          ELSE IF network.c THEN goto(g, "hc.read2")
          ELSE goto(g, "c.read")
    /\ UNCHANGED <<clock, latest, network, box, res>>

\* Network.client / HTTP.Client: if n.c != nil { return n.c, nil }, else the
\* chain hash is decoded and a client made.  HTTP.PublicKey drops the error.
ReadClient(g) ==
    /\ calls[g].pc = "c.read"
    /\ \E torn \in Torn(g) :
          IF torn THEN return(g, "undefined")
          ELSE IF network.c THEN goto(g, AfterClient(calls[g].op))
          ELSE IF IsHex(network.chainHash) THEN goto(g, "c.write")
          ELSE IF network.kind = "HTTP" /\ calls[g].op = "PublicKey"
          THEN goto(g, "hc.read2")
          ELSE IF calls[g].op = "IsReadyToDecrypt"
          THEN return(g, "not ready")
          ELSE return(g, "decoding chain hash")
    /\ UNCHANGED <<clock, latest, network, box, res>>

\* n.c = client
WriteClient(g) ==
    /\ calls[g].pc = "c.write"
    /\ network' = [network EXCEPT !.c = TRUE]
    /\ goto(g, AfterClient(calls[g].op))
    /\ UNCHANGED <<clock, latest, box, res>>

\* HTTP.PublicKey: chain, err := n.client.Info(ctx), on whatever n.client is.
UseClient(g) ==
    /\ calls[g].pc = "hc.read2"
    /\ \E torn \in Torn(g) :
          IF torn THEN return(g, "undefined")
          ELSE IF network.c THEN goto(g, "info")
          ELSE return(g, "panic: nil pointer dereference")
    /\ UNCHANGED <<clock, latest, network, box, res>>

\* client.Info
RequestInfo(g, fault) ==
    /\ calls[g].pc = "info"
    /\ IF clientInfo(network.chainHash, fault).err # Nil
       THEN return(g, "getting client information")
       ELSE goto(g, "pk.write")
    /\ UNCHANGED <<clock, latest, network, box, res>>

\* n.publicKey = chain.PublicKey
WritePublicKey(g) ==
    /\ calls[g].pc = "pk.write"
    /\ network' = [network EXCEPT !.publicKey = network.chainHash]
    /\ return(g, Nil)
    /\ UNCHANGED <<clock, latest, box, res>>

\* client.Get, as IsReadyToDecrypt and RoundByNumber take its result.
RequestRound(g, fault) ==
    LET result == clientGet(network.chainHash, calls[g].round, fault)
    IN  /\ calls[g].pc = "get"
        /\ IF result.err = Nil THEN return(g, Nil)
           ELSE IF calls[g].op = "IsReadyToDecrypt"
           THEN return(g, "not ready")
           ELSE IF result.err = "EOF" THEN return(g, Nil)
           ELSE return(g, "client get round")
        /\ UNCHANGED <<clock, latest, network, box, res>>

\* client.RoundAt
RequestRoundAt(g) ==
    /\ calls[g].pc = "roundAt"
    /\ return(g, Nil)
    /\ UNCHANGED <<clock, latest, network, box, res>>

\* A network value is constructed before it is shared.
NextShared ==
    \/ Tick
    \/ Publish
    \/ \E c \in ChainArgs : Quiet /\ NewNetwork(c, "none")
    \/ \E c \in ChainArgs : Quiet /\ New(c)
    \/ \E g \in Goroutines, op \in Methods(network.kind), n \in 0 .. 1 :
          Call(g, op, n)
    \/ \E g \in Goroutines : ReadPublicKey(g)
    \/ \E g \in Goroutines : ReadClientFirst(g)
    \/ \E g \in Goroutines : ReadClient(g)
    \/ \E g \in Goroutines : WriteClient(g)
    \/ \E g \in Goroutines : UseClient(g)
    \/ \E g \in Goroutines, f \in {"none", "info"} : RequestInfo(g, f)
    \/ \E g \in Goroutines : WritePublicKey(g)
    \/ \E g \in Goroutines, f \in {"none", "get"} : RequestRound(g, f)
    \/ \E g \in Goroutines : RequestRoundAt(g)

SpecShared == Init /\ [][NextShared]_vars

----------------------------------------------------------------------------
(* The container codec on its own: encode, damage to the bytes, decode *)

MaxSize == 200

\* The container is as encode wrote it.
Intact(b) ==
    /\ b.junk = {}
    /\ b.kpLen = PointLen /\ b.vLen = b.cipher.msg.len
    /\ b.wLen = b.cipher.msg.len
    /\ b.size = TotalLen(b)

\* encode of a ciphertext for a round and a chain hash.
Encode(dst, msg, roundID, chainHash) ==
    LET e == encode(dst, ibeEncrypt(chainHash, RoundHash(roundID), msg),
                    roundID, chainHash)
    IN  /\ box' = e.out
        /\ res' = [op |-> "encode", err |-> e.err]
        /\ UNCHANGED <<calls, clock, latest, network>>

\* The input ends early: only its first k bytes are there.
Truncate(k) ==
    /\ box.kind = "box" /\ Intact(box)
    /\ k < box.size
    /\ box' = [box EXCEPT !.size = k]
    /\ res' = NoResult
    /\ UNCHANGED <<calls, clock, latest, network>>

\* A length prefix is replaced by another number of ten characters.
OverwriteLength(field, n) ==
    /\ box.kind = "box" /\ Intact(box)
    /\ n # box[field]
    /\ box' = [box EXCEPT ![field] = n]
    /\ res' = NoResult
    /\ UNCHANGED <<calls, clock, latest, network>>

\* The round number or a length prefix is replaced by bytes that are no
\* number.
GarbleNumber(field) ==
    /\ box.kind = "box" /\ Intact(box)
    /\ box' = [box EXCEPT !.junk = {field}]
    /\ res' = NoResult
    /\ UNCHANGED <<calls, clock, latest, network>>

\* decode of the container at hand.
Decode(reader) ==
    /\ box.kind = "box"
    /\ res' = [op |-> "decode", reader |-> reader]
              @@ decode(box, ChunkOf(box, reader))
    /\ UNCHANGED <<calls, clock, latest, network, box>>

NextCodec ==
    \/ \E dst \in Dsts, msg \in Payloads, n \in Rounds, c \in Hosted :
          Encode(dst, msg, n, c)
    \/ \E k \in 0 .. MaxSize : Truncate(k)
    \/ \E field \in {"kpLen", "vLen", "wLen"}, n \in {0 - 1, 0, BigLen} :
          OverwriteLength(field, n)
    \/ \E field \in {"round", "kp", "v", "w"} : GarbleNumber(field)
    \/ \E r \in Readers : Decode(r)

SpecCodec == Init /\ [][NextCodec]_vars

----------------------------------------------------------------------------
(* Properties of foundation/drnd, checked under Spec *)

\* The container is as encryption wrote it.
Untampered == box.round = box.made.round /\ box.chain = box.made.chain

\* C1 (as claimed): round trip.  Decrypt, run over a working transport on the
\* untampered output of an encryption for round n on an unchained chain, when
\* round n is published, succeeds and returns exactly the payload.
C1_RoundTrip ==
    (/\ res.op = "Decrypt"
     /\ res.fault = "none"
     /\ Untampered
     /\ Scheme[box.made.chain] = Unchained
     /\ box.made.round <= latest)
    => (res.err = Nil /\ res.data = box.cipher.msg)

\* A round trip that does work: a short payload encrypted by duration.
C1_RoundTripSeen ==
    /\ res.op = "Decrypt"
    /\ res.err = Nil
    /\ res.data = box.cipher.msg

\* C3: identity binding.  Decrypt of a container whose stored round differs
\* from the round it was encrypted for returns an error and no plaintext,
\* whatever rounds are published.
C3_IdentityBinding ==
    (res.op = "Decrypt" /\ box.round # box.made.round)
    => (res.err # Nil /\ res.data = Nil)

\* C3 witness: the stored round was changed to a published round, its
\* signature was fetched, and IBE decryption rejected it.
C3_Witness ==
    /\ res.op = "Decrypt"
    /\ box.round # box.made.round
    /\ box.round <= latest
    /\ box.cipher.ID = RoundHash(box.made.round)
    /\ res.gets = <<box.round>>
    /\ res.err = "decrypt"

\* C5 (as claimed): the identity a container is IBE-encrypted under is the
\* SHA-256 of the big-endian round number, in every mode.
C5_IdentityIsRoundHash ==
    box.kind = "box" => box.cipher.ID = RoundHash(box.made.round)

\* C6 (as claimed): chain binding.  Decrypt of a container whose chain hash is
\* not the one it was encrypted with fails, and requests no signature.
C6_ChainBinding ==
    (res.op = "Decrypt" /\ box.chain # box.made.chain)
    => (res.err # Nil /\ res.gets = <<>>)

\* C10 (as claimed): encryption for an explicit round that is not yet
\* published succeeds.
C10_FutureRoundEncrypts ==
    (/\ res.op = "EncryptWithRound"
     /\ res.fault = "none"
     /\ res.gets # <<>>
     /\ res.gets[1] > latest)
    => res.err = Nil

\* C12 (as claimed): in every container that encryption writes, the IBE fields
\* V and W are each exactly 16 bytes long, whatever the length of the payload.
C12_FieldsAreFileKeySize ==
    box.kind = "box" => (box.vLen = FileKeySize /\ box.wLen = FileKeySize)

\* C15 (as claimed): an encryption during which dst failed to take some byte
\* of the container does not return nil.
C15_WriteFailureSurfaces ==
    (res.op \in {"EncryptWithRound", "EncryptWithDuration"} /\ res.err = Nil)
    => box.size = TotalLen(box)

----------------------------------------------------------------------------
(* Properties of the tlock package over http.Network, checked under          *)
(* SpecTlock                                                                 *)

\* C2: early decrypt.  Decrypt of an untampered container whose round the
\* network has not published fails with ErrTooEarly and yields no plaintext.
C2_EarlyDecrypt ==
    (/\ res.op = "tlock.Decrypt"
     /\ Untampered
     /\ box.round > latest)
    => (res.err = ErrTooEarly /\ res.data = Nil)

\* C2 witness: a decryption attempted over a working transport before the
\* round of the container was published.
C2_Witness ==
    /\ res.op = "tlock.Decrypt"
    /\ res.fault = "none"
    /\ Untampered
    /\ box.round > latest
    /\ res.gets = <<box.round>>
    /\ res.err = ErrTooEarly

C7_TooEarlyOnlyWhenUnpublished ==
    (res.op = "tlock.Decrypt" /\ res.err = ErrTooEarly)
    => box.round > latest

----------------------------------------------------------------------------
(* Properties of commands.Encrypt, checked under SpecCmd *)

\* C8 (as claimed): past-round refusal.  Encrypt with an explicit round below
\* the round of now returns an error and writes nothing to dst, armor or not.
C8_PastRoundRefusal ==
    (/\ res.op = "commands.Encrypt"
     /\ res.round # 0
     /\ res.round < RoundAt(clock))
    => (res.err # Nil /\ res.dst = <<>>)

\* C9 (as claimed): in every mode tlock.Encrypt is invoked only with a round
\* that is not in the past.
C9_RoundValidatedInEveryMode ==
    (res.op = "commands.Encrypt" /\ res.called # 0)
    => res.called >= RoundAt(clock)

----------------------------------------------------------------------------
(* Properties of networks/http, checked under SpecTlock *)

----------------------------------------------------------------------------
(* Properties of a shared network value, checked under SpecShared *)

\* C13 (as claimed): concurrent calls on one network value never write a
\* field of it while another call reads or writes the same field.
C13_NoUnsynchronizedAccess ==
    \A g, h \in Goroutines : ~Conflict(g, h)

----------------------------------------------------------------------------
(* Properties of the container codec, checked under SpecCodec *)

\* C14 (as claimed): decode of a malformed or truncated container returns an
\* error: it does not panic, and it returns no decodeInfo whose U, V or W was
\* read only in part.
C14_MalformedContainerRejected ==
    (res.op = "decode" /\ ~Intact(box))
    => /\ res.err # Nil
       /\ res.err # PanicMakeslice

----------------------------------------------------------------------------
(* Properties of parseDuration, checked under SpecDuration *)

\* C16 (as claimed): parseDuration accepts a string only if it is in the
\* standard grammar or is a number followed by exactly one of the units d, M
\* and y, with nothing after the unit.
C16_DurationGrammar ==
    (res.op = "parseDuration" /\ res.err = Nil)
    => \/ ParseDuration(res.duration).ok
       \/ /\ Len(res.duration) >= 2
          /\ res.duration[Len(res.duration)] \in {"d", "M", "y"}
          /\ Atoi(SubSeq(res.duration, 1, Len(res.duration) - 1)).ok

----------------------------------------------------------------------------
(* Properties of the tle command line, checked under SpecCli *)

\* C17 (as claimed): with neither -D nor -r the command encrypts with a
\* duration of 120 days, and the duration "120d" is accepted.
C17_DefaultDuration ==
    (/\ res.op = "run"
     /\ res.fault = "none"
     /\ res.valid = Nil
     /\ ~res.flags.decryptFlag
     /\ res.flags.roundFlag = 0
     /\ res.flags.durationFlag \in {<<>>, <<"1", "2", "0", "d">>})
    => (res.reached = "commands.Encrypt" /\ res.dur = 120 * Day)

\* C18 (as claimed): a decryption with no duration and no round given passes
\* the validation and reaches commands.Decrypt.
C18_DecryptNeedsOnlyNetwork ==
    (/\ res.op = "run"
     /\ res.fault = "none"
     /\ res.flags.decryptFlag
     /\ ~res.flags.encryptFlag /\ ~res.flags.armorFlag
     /\ res.flags.durationFlag = <<>>
     /\ res.flags.roundFlag = 0)
    => (res.valid = Nil /\ res.reached = "commands.Decrypt")

\* C19 (as claimed): -a together with -d passes the validation of the flags.
C19_ArmorWithDecrypt ==
    (/\ res.op = "run"
     /\ res.flags.decryptFlag /\ res.flags.armorFlag
     /\ ~res.flags.encryptFlag
     /\ res.flags.durationFlag = <<>>
     /\ res.flags.roundFlag = 0)
    => res.valid = Nil

\* C20 (as claimed): a command line that gives both -r and -D is rejected by
\* the validation of the flags, and no encryption is performed.
C20_RoundAndDurationExclusive ==
    (/\ res.op = "run"
     /\ res.flags.roundFlag # 0
     /\ res.flags.durationFlag # <<>>)
    => (res.valid # Nil /\ res.reached # "commands.Encrypt")

\* C21 (as claimed): after a successful run with -o the file holds exactly
\* the bytes of the result, whatever it held before.
C21_OutputOverwritten ==
    (/\ res.op = "run"
     /\ res.err = Nil
     /\ res.flags.outputFlag # "")
    => (box.kind = "file" /\ box.content = res.out)

----------------------------------------------------------------------------
(* Further properties of commands.Encrypt, checked under SpecCmd *)

\* C22 (as claimed): every failure in commands.Encrypt, a failure while
\* closing the armor writer included, is in the error it returns, so that main
\* exits with a code other than 0.
C22_CloseFailureReturned ==
    (res.op = "commands.Encrypt" /\ res.closeErr # Nil)
    => res.err # Nil

\* C24 (as claimed): commands.Encrypt returns nil only if tlock.Encrypt was
\* invoked and a ciphertext was written to dst.
C24_NilOnlyAfterEncrypt ==
    (res.op = "commands.Encrypt" /\ res.err = Nil)
    => (res.called # 0 /\ \E i \in 1 .. Len(res.dst) : res.dst[i] = "age")

----------------------------------------------------------------------------
(* A further property of the shared network, checked under SpecShared *)

\* C23 (as claimed): on a network value whose chain hash is not valid hex,
\* every call that needs the client returns an error value: it neither
\* succeeds, nor panics on a nil client, nor reports "not ready".
C23_BadChainHashIsAnError ==
    [][\A g \in Goroutines :
          (/\ calls[g].pc \notin {"idle", "done"}
           /\ calls'[g].pc = "done"
           /\ ~IsHex(network.chainHash))
          => calls'[g].ret \notin
                {Nil, "not ready", "undefined",
                 "panic: nil pointer dereference"}]_vars

----------------------------------------------------------------------------
(* A further property of the container codec, checked under SpecCodec *)

\* C25 (as claimed): decode of the bytes encode wrote returns the round and
\* the chain hash that were encoded and U, V and W in full, however the
\* reader splits the bytes into reads.
C25_CodecRoundTrip ==
    (res.op = "decode" /\ Intact(box))
    => /\ res.err = Nil
       /\ res.roundID = box.made.round
       /\ res.chainHash = box.made.chain
       /\ res.kyberPoint = PointLen
       /\ res.cipherV = box.cipher.msg.len
       /\ res.cipherW = box.cipher.msg.len

====
